---- MODULE Spec2Model ----
(***************************************************************************)
(* G-IMGTool (gimgtool.py): the IMG archive engine of class IMGTool.       *)
(*                                                                         *)
(* A byte string (a file's content, a read() result) is the record         *)
(*   [size |-> its length, nz |-> {<<offset, value>> : its nonzero bytes}] *)
(* which is a canonical form: two byte strings are byte-identical exactly  *)
(* when the two records are equal.  A directory of the file system is      *)
(*   [exists |-> BOOLEAN, files |-> function from names to byte strings]   *)
(* and a name is the sequence of its ASCII codes.                          *)
(***************************************************************************)
EXTENDS Integers, Sequences, FiniteSets, TLC

SECTOR_SIZE == 2048
ENTRY_SIZE == 32
NAME_SIZE == 24
ENTRY_CEILING == 10000

Min(a, b) == IF a < b THEN a ELSE b
Max(a, b) == IF a > b THEN a ELSE b

(***************************************************************************)
(* Byte strings and the file object (f.read, f.write, f.seek).             *)
(***************************************************************************)
EmptyBytes == [size |-> 0, nz |-> {}]

\* b'\x00' * n
Zeros(n) == [size |-> n, nz |-> {}]

\* the bytes object holding the byte values of sequence s
FromSeq(s) == [size |-> Len(s), nz |-> {<<i - 1, s[i]>> : i \in {j \in 1..Len(s) : s[j] # 0}}]

ByteAt(b, i) ==
  IF \E p \in b.nz : p[1] = i THEN (CHOOSE p \in b.nz : p[1] = i)[2] ELSE 0

\* f.seek(off); f.read(n): at most n bytes, fewer when the file ends first
ReadAt(b, off, n) ==
  LET m == Min(n, Max(0, b.size - off))
  IN  [size |-> m,
       nz |-> {<<p[1] - off, p[2]>> : p \in {q \in b.nz : q[1] >= off /\ q[1] < off + m}}]

\* f.seek(pos); f.write(d): overwrites, extends, zero-fills a gap past the old end;
\* an empty write leaves the file as it is
WriteAt(b, pos, d) ==
  IF d.size = 0 THEN b
  ELSE [size |-> Max(b.size, pos + d.size),
        nz |-> {p \in b.nz : p[1] < pos \/ p[1] >= pos + d.size}
               \cup {<<p[1] + pos, p[2]>> : p \in d.nz}]

\* a file opened for writing: its content and the position of the next write
FWrite(f, d) == [data |-> WriteAt(f.data, f.pos, d), pos |-> f.pos + d.size]
FSeek(f, p) == [f EXCEPT !.pos = p]

RECURSIVE Pow256(_)
Pow256(k) == IF k = 0 THEN 1 ELSE 256 * Pow256(k - 1)

\* struct.pack('<I', v)
Pack32(v) ==
  [size |-> 4,
   nz |-> {<<k, (v \div Pow256(k)) % 256>> : k \in {j \in 0..3 : (v \div Pow256(j)) % 256 # 0}}]

\* struct.unpack('<I', b)[0], defined when b holds 4 bytes
Unpack32(b) ==
  ByteAt(b, 0) + 256 * ByteAt(b, 1) + 65536 * ByteAt(b, 2) + 16777216 * ByteAt(b, 3)

\* struct.unpack('<I', f.read(4)) raises struct.error on a short read
CanUnpack(b, off) == off + 4 <= b.size
U32At(b, off) == Unpack32(ReadAt(b, off, 4))

(***************************************************************************)
(* Names.                                                                  *)
(***************************************************************************)
\* str comparison of sorted(): lexicographic by code, a proper prefix first
LexLess(a, b) ==
  \E k \in 1..(Min(Len(a), Len(b)) + 1) :
     /\ \A j \in 1..(k - 1) : a[j] = b[j]
     /\ \/ k = Len(a) + 1 /\ k <= Len(b)
        \/ k <= Len(a) /\ k <= Len(b) /\ a[k] < b[k]

RECURSIVE SortedNames(_)
SortedNames(S) ==
  IF S = {} THEN <<>>
  ELSE LET m == CHOOSE x \in S : \A y \in S \ {x} : LexLess(x, y)
       IN  <<m>> \o SortedNames(S \ {m})

\* the name field cut at 23 bytes to keep a terminating NUL
NameFieldTerminated(filename) ==
  [size |-> NAME_SIZE,
   nz |-> FromSeq(SubSeq(filename, 1, Min(NAME_SIZE - 1, Len(filename)))).nz]

\* filename.encode('ascii')[:24].ljust(24, b'\x00')
NameField(filename) ==
  [size |-> NAME_SIZE,
   nz |-> FromSeq(SubSeq(filename, 1, Min(NAME_SIZE, Len(filename)))).nz]

\* bytes.strip() removes these from both ends
Whitespace == {9, 10, 11, 12, 13, 32}

\* the byte values of a bytes object, in order
ToSeq(b) == [i \in 1..b.size |-> ByteAt(b, i - 1)]

\* filename_bytes.split(b'\x00')[0]
UpToNul(s) ==
  LET nuls == {i \in 1..Len(s) : s[i] = 0}
      k == IF nuls = {} THEN Len(s) + 1 ELSE CHOOSE i \in nuls : \A j \in nuls : i <= j
  IN  SubSeq(s, 1, k - 1)

\* .strip()
Strip(s) ==
  LET keep == {i \in 1..Len(s) : s[i] \notin Whitespace}
  IN  IF keep = {} THEN <<>>
      ELSE SubSeq(s, CHOOSE i \in keep : \A j \in keep : i <= j,
                     CHOOSE i \in keep : \A j \in keep : i >= j)

IsAscii(c) == c < 128

\* .decode('ascii', errors='ignore')
DecodeAscii(s) == SelectSeq(s, IsAscii)

\* extract_img's name of a directory record, from the bytes f.read(24) returned
ExtractName(filename_bytes) == DecodeAscii(Strip(UpToNul(ToSeq(filename_bytes))))

(***************************************************************************)
(* The file system: the archive file and directories of member files.      *)
(***************************************************************************)
NoFiles == [n \in {} |-> EmptyBytes]
NoDir == [exists |-> FALSE, files |-> NoFiles]
EmptyDir == [exists |-> TRUE, files |-> NoFiles]
NoImg == [exists |-> FALSE, data |-> EmptyBytes]

\* open(os.path.join(dir, name), 'wb').write(data); shutil.copy2 onto dir/name
PutFile(files, name, data) ==
  [n \in DOMAIN files \cup {name} |-> IF n = name THEN data ELSE files[n]]

\* os.remove(dir/name)
DelFile(files, name) == [n \in DOMAIN files \ {name} |-> files[n]]

\* open(os.path.join(output_dir, filename), 'wb') fails with an OSError when the
\* name holds a path separator or names the directory itself or its parent
CanCreate(filename) ==
  /\ \A i \in 1..Len(filename) : filename[i] # 47
  /\ filename # <<46>>
  /\ filename # <<46, 46>>

(***************************************************************************)
(* detect_img_format and get_entry_count.                                  *)
(***************************************************************************)
VER2_MAGIC == FromSeq(<<86, 69, 82, 50>>)

\* detect_img_format with the size check "first_size <= file_size"
detect_img_format_inclusive(img) ==
  IF ~img.exists THEN "INVALID"
  ELSE IF ReadAt(img.data, 0, 4) = VER2_MAGIC THEN "VER2"
  ELSE IF img.data.size < 32 THEN "INVALID"
  ELSE LET first_offset == U32At(img.data, 0)
           first_size == U32At(img.data, 4)
       IN  IF first_offset > 0 /\ first_size > 0 /\ first_size <= img.data.size
           THEN "VER1" ELSE "INVALID"

detect_img_format(img) ==
  IF ~img.exists THEN "INVALID"
  ELSE IF ReadAt(img.data, 0, 4) = VER2_MAGIC THEN "VER2"
  ELSE IF img.data.size < 32 THEN "INVALID"
  ELSE LET first_offset == U32At(img.data, 0)
           first_size == U32At(img.data, 4)
       IN  IF first_offset > 0 /\ first_size > 0 /\ first_size < img.data.size
           THEN "VER1" ELSE "INVALID"

\* the records of a VER1 directory in which the 4-byte field at the given place
\* of the record (0: file_offset, 4: file_size_entry) unpacks to a nonzero value
NonzeroField(data, field) ==
  {p[1] \div ENTRY_SIZE :
     p \in {q \in data.nz : q[1] % ENTRY_SIZE \in field..(field + 3)}}

\* the VER1 scan loop.  Iteration k (from 0) runs with entry_count = k and
\* offset = 32 k; it leaves the loop with that count when offset >= file_size,
\* when a read is short (struct.error) or when a field is zero (both "break");
\* otherwise it counts the record, and leaves with k + 1 when k + 1 > 10000.
ScanVer1(data) ==
  LET offsets == NonzeroField(data, 0)
      sizes == NonzeroField(data, 4)
      counted(k) ==
        /\ ENTRY_SIZE * k < data.size
        /\ CanUnpack(data, ENTRY_SIZE * k)
        /\ CanUnpack(data, ENTRY_SIZE * k + 4)
        /\ k \in offsets
        /\ k \in sizes
      iterations == 0..Min(ENTRY_CEILING, data.size \div ENTRY_SIZE + 1)
  IN  IF \A k \in iterations : counted(k) THEN ENTRY_CEILING + 1
      ELSE CHOOSE k \in iterations :
             ~counted(k) /\ \A j \in 0..(k - 1) : counted(j)

\* get_entry_count raises struct.error on a VER2 store shorter than 8 bytes
EntryCountRaises(data, format_type) == format_type = "VER2" /\ ~CanUnpack(data, 4)

get_entry_count(data, format_type) ==
  IF format_type = "VER2" THEN U32At(data, 4)
  ELSE IF format_type = "VER1" THEN ScanVer1(data)
  ELSE 0

(***************************************************************************)
(* extract_img.                                                            *)
(***************************************************************************)
\* the loop over the directory records, from record i on, into the files of
\* output_dir
RECURSIVE ExtractEntries(_, _, _, _, _)
ExtractEntries(data, dir_start, i, entry_count, out) ==
  IF i >= entry_count THEN out
  ELSE LET dir_offset == dir_start + i * ENTRY_SIZE
           rest(o) == ExtractEntries(data, dir_start, i + 1, entry_count, o)
       IN  IF ~CanUnpack(data, dir_offset) \/ ~CanUnpack(data, dir_offset + 4)
           THEN rest(out)
           ELSE LET file_offset == U32At(data, dir_offset)
                    file_size == U32At(data, dir_offset + 4)
                    filename == ExtractName(ReadAt(data, dir_offset + 8, NAME_SIZE))
                    file_data == ReadAt(data, file_offset * SECTOR_SIZE, file_size)
                IN  IF filename = <<>> \/ file_size = 0 THEN rest(out)
                    ELSE IF ~CanCreate(filename) THEN rest(out)
                    ELSE rest(PutFile(out, filename, file_data))

\* extract_img(img_file, output_dir): ret is "true", "false" or "raise", dir is
\* output_dir afterwards
extract_img(img, output_dir) ==
  IF ~img.exists THEN [ret |-> "false", dir |-> output_dir]
  ELSE LET made == [exists |-> TRUE, files |-> output_dir.files]
           format_type == detect_img_format(img)
       IN  IF format_type = "INVALID" THEN [ret |-> "false", dir |-> made]
           ELSE IF EntryCountRaises(img.data, format_type) THEN [ret |-> "raise", dir |-> made]
           ELSE LET entry_count == get_entry_count(img.data, format_type)
                    dir_start == IF format_type = "VER2" THEN 8 ELSE 0
                IN  [ret |-> "true",
                     dir |-> [exists |-> TRUE,
                              files |-> ExtractEntries(img.data, dir_start, 0,
                                                       entry_count, output_dir.files)]]

(***************************************************************************)
(* create_img.                                                             *)
(***************************************************************************)
\* format_type.upper() and format_type.lower() on the tokens a caller passes
Upper(t) ==
  CASE t \in {"ver1", "VER1"} -> "VER1"
    [] t \in {"ver2", "VER2"} -> "VER2"
    [] OTHER -> "VER3"
Lower(t) ==
  CASE t \in {"ver1", "VER1"} -> "ver1"
    [] t \in {"ver2", "VER2"} -> "ver2"
    [] OTHER -> "ver3"

HeaderSize(format_type) == IF format_type = "VER2" THEN 8 ELSE 0

\* (dir_size + SECTOR_SIZE - 1) // SECTOR_SIZE
DataStartSector(dir_size) == (dir_size + SECTOR_SIZE - 1) \div SECTOR_SIZE

\* sectors_needed as "filesize // SECTOR_SIZE + 1"
SectorsNeededPlusOne(filesize) == filesize \div SECTOR_SIZE + 1

\* (filesize + SECTOR_SIZE - 1) // SECTOR_SIZE
SectorsNeeded(filesize) == (filesize + SECTOR_SIZE - 1) \div SECTOR_SIZE

\* padding as "filesize % SECTOR_SIZE"
PaddingRemainder(filesize) == filesize % SECTOR_SIZE

\* the zero bytes written after a member's data
Padding(filesize) ==
  LET padding == SECTOR_SIZE - (filesize % SECTOR_SIZE)
  IN  IF padding # SECTOR_SIZE THEN padding ELSE 0

\* the name create_img writes for a member: truncated when over 24 characters
StoredName(filename) ==
  IF Len(filename) > NAME_SIZE THEN SubSeq(filename, 1, NAME_SIZE) ELSE filename

\* the members create_img warns about
TruncationWarnings(files) == {n \in DOMAIN files : Len(n) > NAME_SIZE}

\* file_info: for each member in order, its path, size and assigned sector
RECURSIVE FileInfo(_, _, _)
FileInfo(names, files, current_sector) ==
  IF names = <<>> THEN <<>>
  ELSE LET filesize == files[Head(names)].size
       IN  <<[filepath |-> Head(names), filesize |-> filesize, sector |-> current_sector]>>
           \o FileInfo(Tail(names), files, current_sector + SectorsNeeded(filesize))

\* the loop writing the directory records, from member i (1-based) on
RECURSIVE WriteDirectory(_, _, _, _)
WriteDirectory(f, format_type, file_info, i) ==
  IF i > Len(file_info) THEN f
  ELSE LET dir_offset == HeaderSize(format_type) + (i - 1) * ENTRY_SIZE
           f1 == FSeek(f, dir_offset)
           f2 == FWrite(f1, Pack32(file_info[i].sector))
           f3 == FWrite(f2, Pack32(file_info[i].filesize))
           f4 == FWrite(f3, NameField(StoredName(file_info[i].filepath)))
       \* (the test makes TLC evaluate this iteration's writes before the next)
       IN  IF f4.pos >= 0 THEN WriteDirectory(f4, format_type, file_info, i + 1) ELSE f4

\* the loop writing the members' data and padding, from member i (1-based) on
RECURSIVE WriteData(_, _, _, _)
WriteData(f, file_info, files, i) ==
  IF i > Len(file_info) THEN f
  ELSE LET f1 == FWrite(f, files[file_info[i].filepath])
           f2 == FWrite(f1, Zeros(Padding(file_info[i].filesize)))
       \* (the test makes TLC evaluate this iteration's writes before the next)
       IN  IF f2.pos >= 0 THEN WriteData(f2, file_info, files, i + 1) ELSE f2

\* create_img(format_type, img_file, input_dir): ret, the archive file afterwards,
\* whether the archive was opened for writing, and the names warned about
create_img(format_type, img, input_dir) ==
  LET failed == [ret |-> "false", img |-> img, wrote |-> FALSE, warn |-> {}]
      fmt == Upper(format_type)
      files == SortedNames(DOMAIN input_dir.files)
  IN  IF ~input_dir.exists THEN failed
      ELSE IF fmt \notin {"VER1", "VER2"} THEN failed
      ELSE IF files = <<>> THEN failed
      ELSE LET header_size == HeaderSize(fmt)
               dir_size == header_size + Len(files) * ENTRY_SIZE
               data_start_sector == DataStartSector(dir_size)
               f0 == [data |-> EmptyBytes, pos |-> 0]
               f1 == IF fmt = "VER2"
                     THEN FWrite(FWrite(f0, VER2_MAGIC), Pack32(Len(files)))
                     ELSE f0
               f2 == FWrite(f1, Zeros(dir_size - header_size))
               file_info == FileInfo(files, input_dir.files, data_start_sector)
               f3 == WriteDirectory(f2, fmt, file_info, 1)
               f4 == FSeek(f3, data_start_sector * SECTOR_SIZE)
               f5 == WriteData(f4, file_info, input_dir.files, 1)
           IN  [ret |-> "true", img |-> [exists |-> TRUE, data |-> f5.data],
                wrote |-> TRUE, warn |-> TruncationWarnings(input_dir.files)]

(***************************************************************************)
(* The compound operations.  Each takes the archive file and the scratch   *)
(* directory work_dir = temp_dir/img_work as they are when it is called    *)
(* and gives the result, both afterwards, and what it passed to create_img.*)
(***************************************************************************)
\* fnmatch.fnmatch(filename, pattern) for patterns of literals, '*' and '?'
RECURSIVE fnmatch(_, _)
fnmatch(filename, pattern) ==
  IF pattern = <<>> THEN filename = <<>>
  ELSE IF Head(pattern) = 42
       THEN \/ fnmatch(filename, Tail(pattern))
            \/ filename # <<>> /\ fnmatch(Tail(filename), pattern)
       ELSE /\ filename # <<>>
            /\ Head(pattern) = 63 \/ Head(pattern) = Head(filename)
            /\ fnmatch(Tail(filename), Tail(pattern))

\* an operation that returns before create_img is called: stage is the step it
\* returned from ("args", "detect", "extract" or "transform")
Unbuilt(stage, ret, img, work, fmt, count) ==
  [ret |-> ret, img |-> img, work |-> work, fmt |-> fmt, stage |-> stage,
   built |-> FALSE, wrote |-> FALSE, bdir |-> NoFiles, warn |-> {}, count |-> count]

\* the common tail "if self.create_img(format_param, img_file, work_dir)"
Rebuilt(img, work, fmt, count) ==
  LET c == create_img(Lower(fmt), img, work)
  IN  [ret |-> c.ret, img |-> c.img, work |-> work, fmt |-> fmt, stage |-> "build",
       built |-> TRUE, wrote |-> c.wrote, bdir |-> work.files, warn |-> c.warn,
       count |-> count]

\* the loop over files_to_add: the scratch files and added_count afterwards
RECURSIVE AddFiles(_, _, _)
AddFiles(files, files_to_add, added_count) ==
  IF files_to_add = <<>> THEN [files |-> files, added_count |-> added_count]
  ELSE LET file_path == Head(files_to_add)
       IN  IF file_path.exists
           THEN AddFiles(PutFile(files, file_path.name, file_path.data),
                         Tail(files_to_add), added_count + 1)
           ELSE AddFiles(files, Tail(files_to_add), added_count)

\* add_multiple_to_img without the check "if added_count == 0"
add_multiple_to_img_unchecked(img, work_dir, files_to_add) ==
  IF files_to_add = <<>> THEN Unbuilt("args", "false", img, work_dir, "INVALID", 0)
  ELSE LET format_type == detect_img_format(img)
           x == extract_img(img, work_dir)
           a == AddFiles(x.dir.files, files_to_add, 0)
       IN  IF format_type = "INVALID" THEN Unbuilt("detect", "false", img, work_dir, format_type, 0)
           ELSE IF x.ret # "true" THEN Unbuilt("extract", x.ret, img, x.dir, format_type, 0)
           ELSE Rebuilt(img, [exists |-> TRUE, files |-> a.files], format_type,
                        a.added_count)

add_multiple_to_img(img, work_dir, files_to_add) ==
  IF files_to_add = <<>> THEN Unbuilt("args", "false", img, work_dir, "INVALID", 0)
  ELSE LET format_type == detect_img_format(img)
           x == extract_img(img, work_dir)
           a == AddFiles(x.dir.files, files_to_add, 0)
       IN  IF format_type = "INVALID" THEN Unbuilt("detect", "false", img, work_dir, format_type, 0)
           ELSE IF x.ret # "true" THEN Unbuilt("extract", x.ret, img, x.dir, format_type, 0)
           ELSE IF a.added_count = 0 THEN Unbuilt("transform", "false", img, x.dir, format_type, 0)
           ELSE Rebuilt(img, [exists |-> TRUE, files |-> a.files], format_type,
                        a.added_count)

\* the loop over files_to_remove: the scratch files and removed_count afterwards
RECURSIVE RemoveFiles(_, _, _)
RemoveFiles(files, files_to_remove, removed_count) ==
  IF files_to_remove = <<>> THEN [files |-> files, removed_count |-> removed_count]
  ELSE LET matching_files == {n \in DOMAIN files : fnmatch(n, Head(files_to_remove))}
       IN  RemoveFiles([n \in DOMAIN files \ matching_files |-> files[n]],
                       Tail(files_to_remove),
                       removed_count + Cardinality(matching_files))

remove_multiple_from_img(img, work_dir, files_to_remove) ==
  IF files_to_remove = <<>> THEN Unbuilt("args", "false", img, work_dir, "INVALID", 0)
  ELSE LET format_type == detect_img_format(img)
           x == extract_img(img, work_dir)
           r == RemoveFiles(x.dir.files, files_to_remove, 0)
       IN  IF format_type = "INVALID" THEN Unbuilt("detect", "false", img, work_dir, format_type, 0)
           ELSE IF x.ret # "true" THEN Unbuilt("extract", x.ret, img, x.dir, format_type, 0)
           ELSE IF r.removed_count = 0 THEN Unbuilt("transform", "false", img, x.dir, format_type, 0)
           ELSE Rebuilt(img, [exists |-> TRUE, files |-> r.files], format_type,
                        r.removed_count)

rename_in_img(img, work_dir, old_name, new_name) ==
  IF old_name = <<>> \/ new_name = <<>> THEN Unbuilt("args", "false", img, work_dir, "INVALID", 0)
  ELSE IF Len(new_name) > NAME_SIZE THEN Unbuilt("args", "false", img, work_dir, "INVALID", 0)
  ELSE LET format_type == detect_img_format(img)
           x == extract_img(img, work_dir)
           renamed == PutFile(DelFile(x.dir.files, old_name), new_name,
                              x.dir.files[old_name])
       IN  IF format_type = "INVALID" THEN Unbuilt("detect", "false", img, work_dir, format_type, 0)
           ELSE IF x.ret # "true" THEN Unbuilt("extract", x.ret, img, x.dir, format_type, 0)
           ELSE IF old_name \notin DOMAIN x.dir.files
                THEN Unbuilt("transform", "false", img, x.dir, format_type, 0)
           ELSE IF new_name \in DOMAIN x.dir.files
                THEN Unbuilt("transform", "false", img, x.dir, format_type, 0)
           ELSE Rebuilt(img, [exists |-> TRUE, files |-> renamed], format_type, 1)

\* rebuild_img at clock reading t = int(time.time()): also the backup files
\* afterwards (keyed by the timestamp in their name) and saved_bytes
rebuild_img(img, work_dir, backup_files, t) ==
  LET format_type == detect_img_format(img)
      copied == PutFile(backup_files, t, img.data)
      x == extract_img(img, work_dir)
      b == Rebuilt(img, x.dir, format_type, 0)
      with(r, bk, saved) == [res |-> r, backups |-> bk, saved_bytes |-> saved]
  IN  IF format_type = "INVALID"
      THEN with(Unbuilt("detect", "false", img, work_dir, format_type, 0), backup_files, 0)
      ELSE IF x.ret # "true"
           THEN with(Unbuilt("extract", x.ret, img, x.dir, format_type, 0), copied, 0)
      ELSE IF b.ret # "true" THEN with(b, copied, 0)
      ELSE with(b, copied, copied[t].size - b.img.data.size)

(***************************************************************************)
(* list_img_filtered and info_img.                                         *)
(***************************************************************************)
\* .rstrip(b'\x00')
RStripNul(s) ==
  LET keep == {i \in 1..Len(s) : s[i] # 0}
  IN  IF keep = {} THEN <<>>
      ELSE SubSeq(s, 1, CHOOSE i \in keep : \A j \in keep : i >= j)

\* list_img_filtered's name of a directory record, from the bytes f.read(24)
\* returned
ListName(filename_bytes) == DecodeAscii(RStripNul(ToSeq(filename_bytes)))

\* the loop over the directory records, from record i on: the lines printed,
\* one per displayed entry; filter_pattern is <<>> for None and for ''
RECURSIVE ListEntries(_, _, _, _, _, _)
ListEntries(data, dir_start, i, entry_count, filter_pattern, out) ==
  IF i >= entry_count THEN out
  ELSE LET dir_offset == dir_start + i * ENTRY_SIZE
           rest(o) == ListEntries(data, dir_start, i + 1, entry_count, filter_pattern, o)
       IN  IF ~CanUnpack(data, dir_offset) \/ ~CanUnpack(data, dir_offset + 4)
           THEN rest(out)
           ELSE LET file_offset == U32At(data, dir_offset)
                    file_size == U32At(data, dir_offset + 4)
                    filename == ListName(ReadAt(data, dir_offset + 8, NAME_SIZE))
                IN  IF filename = <<>> \/ file_size = 0 THEN rest(out)
                    ELSE IF filter_pattern # <<>> /\ ~fnmatch(filename, filter_pattern)
                         THEN rest(out)
                    ELSE rest(Append(out, [filename |-> filename, file_size |-> file_size,
                                           file_offset |-> file_offset]))

\* list_img_filtered(img_file, filter_pattern): ret is "true", "false" or
\* "raise", lines are the entries printed
list_img_filtered(img, filter_pattern) ==
  IF ~img.exists THEN [ret |-> "false", lines |-> <<>>]
  ELSE LET format_type == detect_img_format(img)
       IN  IF format_type = "INVALID" THEN [ret |-> "false", lines |-> <<>>]
           ELSE IF EntryCountRaises(img.data, format_type) THEN [ret |-> "raise", lines |-> <<>>]
           ELSE LET entry_count == get_entry_count(img.data, format_type)
                    dir_start == IF format_type = "VER2" THEN 8 ELSE 0
                IN  [ret |-> "true",
                     lines |-> ListEntries(img.data, dir_start, 0, entry_count,
                                           filter_pattern, <<>>)]

\* info_img's loop over the directory records, from record i on: it assigns
\* each size it reads to file_size and adds it to total_data_size
RECURSIVE InfoSizes(_, _, _, _, _, _)
InfoSizes(data, dir_start, i, entry_count, file_size, total_data_size) ==
  IF i >= entry_count THEN [file_size |-> file_size, total_data_size |-> total_data_size]
  ELSE LET dir_offset == dir_start + i * ENTRY_SIZE + 4
       IN  IF ~CanUnpack(data, dir_offset)
           THEN InfoSizes(data, dir_start, i + 1, entry_count, file_size, total_data_size)
           ELSE InfoSizes(data, dir_start, i + 1, entry_count, U32At(data, dir_offset),
                          total_data_size + U32At(data, dir_offset))

NoReport ==
  [size |-> 0, entries |-> 0, total_data_size |-> 0, overhead |-> 0,
   has_efficiency |-> FALSE, efficiency |-> 0]

\* info_img(img_file): ret and the figures printed ("Size", "Entries", "Total
\* data size", "Overhead", and "Efficiency" when it is printed)
info_img(img) ==
  IF ~img.exists THEN [ret |-> "false", report |-> NoReport]
  ELSE LET file_size == img.data.size
           format_type == detect_img_format(img)
       IN  IF format_type = "INVALID"
           THEN [ret |-> "false", report |-> [NoReport EXCEPT !.size = file_size]]
           ELSE IF EntryCountRaises(img.data, format_type)
           THEN [ret |-> "raise", report |-> [NoReport EXCEPT !.size = file_size]]
           ELSE LET entry_count == get_entry_count(img.data, format_type)
                    header_size == HeaderSize(format_type)
                    z == InfoSizes(img.data, header_size, 0, entry_count, file_size, 0)
                IN  [ret |-> "true",
                     report |-> [size |-> file_size,
                                 entries |-> entry_count,
                                 total_data_size |-> z.total_data_size,
                                 overhead |-> z.file_size - z.total_data_size,
                                 has_efficiency |-> z.file_size > 0,
                                 efficiency |-> IF z.file_size > 0
                                                THEN (z.total_data_size * 100) \div z.file_size
                                                ELSE 0]]

(***************************************************************************)
(* main: the command line.                                                 *)
(***************************************************************************)
\* the Namespace parse_args returns for a subcommand: dest='command' and the
\* subparser's own arguments are its only attributes (command "" is None)
Namespace(command, own) == ("command" :> command) @@ own
HasAttr(args, a) == a \in DOMAIN args
Truthy(v) == v # <<>>

\* the attributes the block "Validate arguments based on command" tests, one
\* per branch, in order
ValidatedAttributes == <<"extract", "create", "add", "delete", "rename", "list">>

\* that block: "pass", or the exception it ends with (reading an attribute a
\* Namespace does not have raises AttributeError, parser.error exits)
RECURSIVE Validate(_, _)
Validate(args, k) ==
  IF k > Len(ValidatedAttributes) THEN "pass"
  ELSE LET a == ValidatedAttributes[k]
       IN  IF ~HasAttr(args, a) THEN "AttributeError"
           ELSE IF ~Truthy(args[a]) THEN Validate(args, k + 1)
           ELSE IF ~HasAttr(args, "args") THEN "AttributeError"
           ELSE IF a \in {"extract", "create"} /\ Len(args.args) # 1 THEN "SystemExit"
           ELSE IF a \in {"add", "delete"} /\ Len(args.args) < 1 THEN "SystemExit"
           ELSE IF a = "rename" /\ Len(args.args) # 2 THEN "SystemExit"
           ELSE "pass"

\* what one call leaves: the call with what it returned, and the files; b
\* tells what create_img was given when it wrote the archive
Called(op, ret, i, o, bk, b) ==
  [calls |-> <<[op |-> op, ret |-> ret]>>, img |-> i, out |-> o, backups |-> bk,
   wrote |-> b.wrote, fmt |-> b.fmt, files |-> b.bdir, clock |-> op = "rebuild_img"]
NotBuilt == [wrote |-> FALSE, fmt |-> "INVALID", bdir |-> NoFiles]
Extracted(x, store, backup_files) ==
  Called("extract_img", x.ret, store, x.dir, backup_files, NotBuilt)
Created(c, args, out, backup_files) ==
  Called("create_img", c.ret, c.img, out, backup_files,
         [wrote |-> c.wrote, fmt |-> Upper(args.format), bdir |-> args.input_dir.files])
Compounded(op, r, out, bk) == Called(op, r.ret, r.img, out, bk, r)
Rebuilded(r, out) == Compounded("rebuild_img", r.res, out, r.backups)

\* the block "with IMGTool() as tool:" on a new instance, whose scratch is
\* empty: the call made with what it returned, and the files afterwards
Dispatch(args, store, out, backup_files, t) ==
  IF args.command \in {"extract", "e"}
  THEN Extracted(extract_img(store, args.output_dir), store, backup_files)
  ELSE IF args.command \in {"create", "c"}
  THEN Created(create_img(args.format, store, args.input_dir), args, out, backup_files)
  ELSE IF args.command \in {"add", "a"}
  THEN Compounded("add_multiple_to_img",
                  add_multiple_to_img(store, NoDir, args.files), out, backup_files)
  ELSE IF args.command \in {"del", "d"}
  THEN Compounded("remove_multiple_from_img",
                  remove_multiple_from_img(
                    store, NoDir, [k \in 1..Len(args.files) |-> args.files[k].name]),
                  out, backup_files)
  ELSE IF args.command \in {"rename", "r"}
  THEN Compounded("rename_in_img",
                  rename_in_img(store, NoDir, args.old_name, args.new_name),
                  out, backup_files)
  ELSE IF args.command \in {"rebuild", "R"}
  THEN Rebuilded(rebuild_img(store, NoDir, backup_files, t), out)
  ELSE IF args.command \in {"list", "l"}
  THEN Called("list_img_filtered",
              list_img_filtered(store, IF HasAttr(args, "filter") THEN args.filter
                                       ELSE <<>>).ret,
              store, out, backup_files, NotBuilt)
  ELSE IF args.command \in {"info", "i"}
  THEN Called("info_img", info_img(store).ret, store, out, backup_files, NotBuilt)
  ELSE [calls |-> <<>>, img |-> store, out |-> out, backups |-> backup_files,
        wrote |-> FALSE, fmt |-> "INVALID", files |-> NoFiles, clock |-> FALSE]

\* "return 0 if success else 1", "return 2", and the handlers that return 1
Returned(d) ==
  [outcome |-> IF d.calls = <<>> THEN "2"
               ELSE IF d.calls[1].ret = "true" THEN "0" ELSE "1",
   scope |-> TRUE, calls |-> d.calls, img |-> d.img, out |-> d.out,
   backups |-> d.backups, wrote |-> d.wrote, fmt |-> d.fmt, files |-> d.files,
   clock |-> d.clock]
NotEntered(outcome, store, out, backup_files) ==
  [outcome |-> outcome, scope |-> FALSE, calls |-> <<>>, img |-> store,
   out |-> out, backups |-> backup_files, wrote |-> FALSE, fmt |-> "INVALID",
   files |-> NoFiles, clock |-> FALSE]

\* main() after parse_args returned args: outcome is the value returned, or the
\* exception that leaves main; scope tells whether IMGTool() was entered
main(args, store, out, backup_files, t) ==
  IF Validate(args, 1) # "pass"
  THEN NotEntered(Validate(args, 1), store, out, backup_files)
  ELSE IF args.command = "" THEN NotEntered("1", store, out, backup_files)
  ELSE Returned(Dispatch(args, store, out, backup_files, t))

(***************************************************************************)
(* The bounded inputs: member files, input directories, arguments.         *)
(***************************************************************************)
MaxOps == 3
MaxTime == 1
MaxRecords == 3

a_dat == <<97, 46, 100, 97, 116>>
b_dat == <<98, 46, 100, 97, 116>>
c_dat == <<99, 46, 100, 97, 116>>
zz == <<122, 122>>
\* "0": sorts before every letter
zero_name == <<48>>
\* " s": a leading space
space_name == <<32, 115>>
\* 24 characters, and 25 characters
name24 == <<110, 97, 109, 101, 95, 111, 102, 95, 50, 52, 95, 99, 104, 97, 114, 97,
            99, 116, 101, 114, 115, 46, 116, 120>>
name25 == <<108, 111, 110, 103, 95, 110, 97, 109, 101, 95, 50, 53, 95, 99, 104, 97,
            114, 97, 99, 116, 101, 114, 115, 46, 120>>
star == <<42>>
star_dat == <<42, 46, 100, 97, 116>>

\* member contents: 10 bytes, 5000 bytes, one full sector, 100 bytes, none
data10 == [size |-> 10, nz |-> {<<0, 1>>, <<9, 2>>}]
data10b == [size |-> 10, nz |-> {<<0, 7>>, <<9, 8>>}]
data5000 == [size |-> 5000, nz |-> {<<0, 3>>, <<4999, 4>>}]
data2048 == [size |-> SECTOR_SIZE, nz |-> {<<0, 5>>, <<SECTOR_SIZE - 1, 6>>}]
data100 == [size |-> 100, nz |-> {<<50, 9>>}]

Dir(files) == [exists |-> TRUE, files |-> files]

\* 12 bytes that read as two nonzero uint32 fields
data12 == [size |-> 12, nz |-> {<<0, 1>>, <<4, 1>>, <<11, 2>>}]

\* directories of n members "m00", "m01", ... that all hold the same bytes;
\* SectorRecords members make a directory that fills a sector to its end
SectorRecords == SECTOR_SIZE \div ENTRY_SIZE
MemberName(i) == <<109, 48 + (i \div 10), 48 + (i % 10)>>
ManyMembers(n, d) == Dir([nm \in {MemberName(i) : i \in 0..(n - 1)} |-> d])

\* the directories create_img is given
InputDirs ==
  { Dir((a_dat :> data10) @@ (b_dat :> data5000)),
    Dir((a_dat :> data10) @@ (zero_name :> EmptyBytes)),
    Dir((zero_name :> EmptyBytes)),
    Dir((zero_name :> EmptyBytes) @@ (c_dat :> EmptyBytes)),
    Dir((name24 :> data2048) @@ (name25 :> data100) @@ (b_dat :> data5000)),
    Dir((space_name :> data10) @@ (a_dat :> data10b)),
    Dir((b_dat :> data2048)),
    EmptyDir,
    NoDir }

\* a directory whose VER1 records fill their sector exactly, and short ones
SectorDirs ==
  { ManyMembers(SectorRecords, data12),
    Dir((a_dat :> data12)),
    Dir((a_dat :> data12) @@ (b_dat :> data10)),
    Dir((b_dat :> data12)) }

\* the directories the archive of the compound operations is created from
StoreDirs ==
  { Dir((a_dat :> data10) @@ (b_dat :> data5000)),
    Dir((a_dat :> data10) @@ (zero_name :> EmptyBytes)),
    Dir((b_dat :> data2048)) }

\* archive files that some other program wrote: a length, the first 8 bytes
\* (cut to the length) and possibly a nonzero byte further on
Cat(a, b) == WriteAt(a, a.size, b)
ForeignSizes == {0, 3, 4, 7, 8, 31, 32, 33, 40, 2048}
ForeignFirstOffsets == {0, 1, 65536}
ForeignFirstSizes == {0, 1, 31, 32, 33, 39, 40, 2047, 2048, 2147483647}
ForeignPrefixes ==
  {Cat(Pack32(o), Pack32(z)) : o \in ForeignFirstOffsets, z \in ForeignFirstSizes}
  \cup {Cat(VER2_MAGIC, Pack32(c)) : c \in {0, 1, 3}}
  \cup {FromSeq(<<86, 69, 82, 49, 1, 0, 0, 0>>), FromSeq(<<118, 101, 114, 50, 1, 0, 0, 0>>)}
ForeignTails == {EmptyBytes, FromSeq(<<0, 0, 0, 0, 0, 0, 0, 0, 0, 0, 0, 0, 0, 0, 0, 0, 255>>)}
Foreign(size, prefix, tail) ==
  [exists |-> TRUE,
   data |-> ReadAt(WriteAt(WriteAt(Zeros(size + 32), 0, tail), 0, prefix), 0, size)]
ForeignStores ==
  {Foreign(n, p, t) : n \in ForeignSizes, p \in ForeignPrefixes, t \in ForeignTails}

\* archive files that are the first n bytes of one create_img wrote (a copy that
\* was cut short), up to the whole of it
StoreOf(format_type, input_dir) == create_img(format_type, NoImg, input_dir).img
CutLengths == {8, 40, 72, 2048, 2053, 2058, 4096, 4100, 10240, 12288}
TruncatedStores ==
  {[exists |-> TRUE, data |-> ReadAt(StoreOf(f, d).data, 0, n)] :
     f \in {"ver1", "ver2"},
     d \in {Dir((a_dat :> data10) @@ (b_dat :> data5000)),
            Dir((name24 :> data2048) @@ (space_name :> data100))},
     n \in CutLengths}

\* VER2 archive files that some other program wrote: one sector of directory
\* and one of payload, with two records of 10 bytes at sector 1 under the
\* given name fields
NameFields ==
  { FromSeq(<<97, 0, 98>>),       \* "a", NUL, "b"
    FromSeq(<<32, 32>>),          \* two spaces
    FromSeq(<<97, 32>>),          \* "a" and a space
    FromSeq(<<97, 47, 98>>),      \* "a/b"
    FromSeq(<<99>>) }             \* "c"
NamedRecord(field) == Cat(Cat(Pack32(1), Pack32(10)), field)
NamedStores ==
  {[exists |-> TRUE,
    data |-> WriteAt(WriteAt(WriteAt(Cat(Cat(VER2_MAGIC, Pack32(2)), Zeros(4088)),
                                     8, NamedRecord(f1)),
                             40, NamedRecord(f2)),
                     2048, data10)] :
     f1 \in NameFields, f2 \in NameFields}

\* VER1 directories that some other program wrote: up to MaxRecords records
\* whose two fields are each zero or one, cut inside the last record, ending
\* with it, or followed by 32 zero bytes; and directories of about 10000
\* records that all have both fields nonzero
FieldPairs == {<<0, 0>>, <<1, 0>>, <<0, 1>>, <<1, 1>>}
RecordSeqs == UNION {[1..n -> FieldPairs] : n \in 1..MaxRecords}
Records(rs) ==
  [size |-> ENTRY_SIZE * Len(rs),
   nz |-> {<<ENTRY_SIZE * (k - 1), 1>> : k \in {j \in 1..Len(rs) : rs[j][1] = 1}}
          \cup {<<ENTRY_SIZE * (k - 1) + 4, 1>> : k \in {j \in 1..Len(rs) : rs[j][2] = 1}}]
LongDirectory(n) == Records([k \in 1..n |-> <<1, 1>>])
DirectoryStores ==
  {[exists |-> TRUE,
    data |-> ReadAt(Cat(Records(rs), Zeros(ENTRY_SIZE)), 0, ENTRY_SIZE * Len(rs) + d)] :
     rs \in RecordSeqs, d \in {-26, -24, 0, ENTRY_SIZE}}
  \cup {[exists |-> TRUE, data |-> LongDirectory(n)] :
          n \in {ENTRY_CEILING, ENTRY_CEILING + 1, ENTRY_CEILING + 2}}

FormatTokens == {"ver1", "ver2", "ver3"}

Path(name, data) == [exists |-> TRUE, name |-> name, data |-> data]
Missing(name) == [exists |-> FALSE, name |-> name, data |-> EmptyBytes]

AddLists ==
  { <<Path(c_dat, data100)>>,
    <<Path(zero_name, EmptyBytes)>>,
    <<Missing(zz), Path(a_dat, data10b)>>,
    <<Missing(zz)>> }

RemoveLists == { <<a_dat>>, <<zz>>, <<zz, star_dat>>, <<star>>, <<zero_name>> }

RenamePairs ==
  { <<a_dat, c_dat>>, <<a_dat, b_dat>>, <<b_dat, b_dat>>, <<zz, c_dat>>,
    <<b_dat, name25>>, <<zero_name, c_dat>> }

\* the Namespaces of well-formed command lines, one shape per subparser, and
\* of a command line without a subcommand (a word of "files" is written with
\* the file it names, if any)
Namespaces ==
  {Namespace(c, [img_file |-> "img", output_dir |-> NoDir]) : c \in {"extract", "e"}}
    \cup {Namespace(c, [format |-> f, img_file |-> "img",
                        input_dir |-> Dir((a_dat :> data10) @@ (b_dat :> data5000))]) :
            c \in {"create", "c"}, f \in {"ver1", "ver2"}}
    \cup {Namespace(c, [img_file |-> "img", files |-> fs]) :
            c \in {"add", "a"}, fs \in {<<Path(c_dat, data100)>>, <<Missing(zz)>>}}
    \cup {Namespace(c, [img_file |-> "img", files |-> fs]) :
            c \in {"del", "d"}, fs \in {<<Missing(a_dat)>>, <<Missing(zz)>>}}
    \cup {Namespace(c, [img_file |-> "img", old_name |-> pr[1], new_name |-> pr[2]]) :
            c \in {"rename", "r"}, pr \in {<<a_dat, c_dat>>, <<zz, c_dat>>}}
    \cup {Namespace(c, [img_file |-> "img"]) : c \in {"rebuild", "R", "info", "i"}}
    \cup {Namespace(c, [img_file |-> "img", filter |-> fp]) :
            c \in {"list", "l"}, fp \in {<<>>, star_dat}}
    \cup {Namespace("", <<>>)}

\* the archive file the command line names: none, or one create_img wrote
MainStores ==
  {NoImg} \cup {StoreOf(f, Dir((a_dat :> data10) @@ (b_dat :> data5000))) :
                  f \in {"ver1", "ver2"}}

(***************************************************************************)
(* The state.                                                              *)
(***************************************************************************)
VARIABLES
  img,       \* the archive file
  origin,    \* the create_img call that wrote img: its layout and members
  temp_dir,  \* self.temp_dir: "none" before __enter__, "made", "removed"
  work_dir,  \* the scratch directory temp_dir/img_work
  out_dir,   \* the output directory of the last extract_img a caller made
  backups,   \* the backup files of rebuild_img, by timestamp
  now,       \* int(time.time()) at the last reading of the clock
  last,      \* the last call: operation, arguments, result, the archive before
  nops       \* the number of calls made

vars == <<img, origin, temp_dir, work_dir, out_dir, backups, now, last, nops>>

NoOrigin == [fmt |-> "INVALID", files |-> NoFiles]

NoLast ==
  [op |-> "none", args |-> <<>>, ret |-> "none", pre |-> NoImg, scratch |-> NoFiles,
   fmt |-> "INVALID", stage |-> "none", built |-> FALSE, wrote |-> FALSE,
   warn |-> {}, count |-> 0, saved_bytes |-> 0, printed |-> <<>>,
   scope |-> FALSE, calls |-> <<>>]

Init ==
  /\ img = NoImg
  /\ origin = NoOrigin
  /\ temp_dir = "none"
  /\ work_dir = NoDir
  /\ out_dir = NoDir
  /\ backups = NoFiles
  /\ now = 0
  /\ last = NoLast
  /\ nops = 0

\* IMGTool.__enter__: a new, empty temporary directory
Enter ==
  /\ temp_dir # "made"
  /\ temp_dir' = "made"
  /\ work_dir' = NoDir
  /\ UNCHANGED <<img, origin, out_dir, backups, now, last, nops>>

\* IMGTool.__exit__: the temporary directory is removed with all it holds
Exit ==
  /\ temp_dir = "made"
  /\ temp_dir' = "removed"
  /\ work_dir' = NoDir
  /\ UNCHANGED <<img, origin, out_dir, backups, now, last, nops>>

\* a call of create_img(format_type, img_file, input_dir) by the caller
Create(dirs) ==
  /\ nops < MaxOps
  /\ \E format_type \in FormatTokens, input_dir \in dirs :
       LET c == create_img(format_type, img, input_dir)
       IN  /\ img' = c.img
           /\ origin' = IF c.wrote
                        THEN [fmt |-> Upper(format_type), files |-> input_dir.files]
                        ELSE origin
           /\ last' = [NoLast EXCEPT !.op = "create", !.args = <<format_type, input_dir>>,
                                     !.ret = c.ret, !.pre = img, !.built = TRUE,
                                     !.wrote = c.wrote, !.warn = c.warn]
  /\ nops' = nops + 1
  /\ UNCHANGED <<temp_dir, work_dir, out_dir, backups, now>>

\* a call of extract_img(img_file, output_dir) with a new output directory
Extract ==
  /\ nops < MaxOps
  /\ LET x == extract_img(img, NoDir)
     IN  /\ out_dir' = x.dir
         /\ last' = [NoLast EXCEPT !.op = "extract", !.ret = x.ret, !.pre = img,
                                   !.fmt = detect_img_format(img)]
  /\ nops' = nops + 1
  /\ UNCHANGED <<img, origin, temp_dir, work_dir, backups, now>>

\* what a compound operation with result r leaves behind
Compound(op, args, r, saved_bytes) ==
  /\ img' = r.img
  /\ origin' = IF r.wrote THEN [fmt |-> r.fmt, files |-> r.bdir] ELSE origin
  /\ work_dir' = r.work
  /\ last' = [op |-> op, args |-> args, ret |-> r.ret, pre |-> img,
              scratch |-> work_dir.files, fmt |-> r.fmt, stage |-> r.stage,
              built |-> r.built,
              wrote |-> r.wrote, warn |-> r.warn, count |-> r.count,
              saved_bytes |-> saved_bytes, printed |-> <<>>,
              scope |-> FALSE, calls |-> <<>>]
  /\ nops' = nops + 1

Add ==
  /\ nops < MaxOps
  /\ temp_dir = "made"
  /\ \E files_to_add \in AddLists :
       Compound("add", files_to_add, add_multiple_to_img(img, work_dir, files_to_add), 0)
  /\ UNCHANGED <<temp_dir, out_dir, backups, now>>

Remove ==
  /\ nops < MaxOps
  /\ temp_dir = "made"
  /\ \E files_to_remove \in RemoveLists :
       Compound("remove", files_to_remove,
                remove_multiple_from_img(img, work_dir, files_to_remove), 0)
  /\ UNCHANGED <<temp_dir, out_dir, backups, now>>

Rename ==
  /\ nops < MaxOps
  /\ temp_dir = "made"
  /\ \E pair \in RenamePairs :
       Compound("rename", pair, rename_in_img(img, work_dir, pair[1], pair[2]), 0)
  /\ UNCHANGED <<temp_dir, out_dir, backups, now>>

\* rebuild_img reads the clock, which has not gone back since the last reading
Rebuild ==
  /\ nops < MaxOps
  /\ temp_dir = "made"
  /\ \E t \in now..MaxTime :
       LET r == rebuild_img(img, work_dir, backups, t)
       IN  /\ Compound("rebuild", <<>>, r.res, r.saved_bytes)
           /\ backups' = r.backups
           /\ now' = t
  /\ UNCHANGED <<temp_dir, out_dir>>

\* a call of detect_img_format(img_file)
Detect ==
  /\ nops < MaxOps
  /\ last' = [NoLast EXCEPT !.op = "detect", !.ret = detect_img_format(img), !.pre = img]
  /\ nops' = nops + 1
  /\ UNCHANGED <<img, origin, temp_dir, work_dir, out_dir, backups, now>>

\* a call of get_entry_count(img_file, format_type) on an archive file that is
\* there: it returns a count or raises
Count ==
  /\ nops < MaxOps
  /\ img.exists
  /\ \E format_type \in {"VER1", "VER2", "INVALID"} :
       LET raises == EntryCountRaises(img.data, format_type)
       IN  last' = [NoLast EXCEPT !.op = "count", !.args = <<format_type>>,
                                  !.ret = IF raises THEN "raise" ELSE "returned",
                                  !.pre = img,
                                  !.count = IF raises THEN 0
                                            ELSE get_entry_count(img.data, format_type)]
  /\ nops' = nops + 1
  /\ UNCHANGED <<img, origin, temp_dir, work_dir, out_dir, backups, now>>

\* a call of list_img_filtered(img_file, filter_pattern)
List ==
  /\ nops < MaxOps
  /\ \E filter_pattern \in {<<>>, star_dat} :
       LET l == list_img_filtered(img, filter_pattern)
       IN  last' = [NoLast EXCEPT !.op = "list", !.args = <<filter_pattern>>,
                                  !.ret = l.ret, !.pre = img,
                                  !.fmt = detect_img_format(img),
                                  !.count = Len(l.lines), !.printed = l.lines]
  /\ nops' = nops + 1
  /\ UNCHANGED <<img, origin, temp_dir, work_dir, out_dir, backups, now>>

\* a call of info_img(img_file)
Info ==
  /\ nops < MaxOps
  /\ LET r == info_img(img)
     IN  last' = [NoLast EXCEPT !.op = "info", !.ret = r.ret, !.pre = img,
                                !.fmt = detect_img_format(img),
                                !.count = r.report.entries, !.printed = r.report]
  /\ nops' = nops + 1
  /\ UNCHANGED <<img, origin, temp_dir, work_dir, out_dir, backups, now>>

\* what a run of main() that ended as m leaves behind
Ran(args, m, t) ==
  /\ img' = m.img
  /\ out_dir' = m.out
  /\ backups' = m.backups
  /\ now' = IF m.clock THEN t ELSE now
  /\ origin' = IF m.wrote THEN [fmt |-> m.fmt, files |-> m.files] ELSE origin
  /\ temp_dir' = IF m.scope THEN "removed" ELSE temp_dir
  /\ work_dir' = IF m.scope THEN NoDir ELSE work_dir
  /\ last' = [NoLast EXCEPT !.op = "main", !.args = args, !.ret = m.outcome,
                            !.pre = img, !.scope = m.scope, !.calls = m.calls]

\* one run of main() from "args = parser.parse_args()" on: IMGTool() as the
\* code enters and leaves it, the operation, the value returned
Main ==
  /\ nops < MaxOps
  /\ \E args \in Namespaces, t \in now..MaxTime :
       Ran(args, main(args, img, out_dir, backups, t), t)
  /\ nops' = nops + 1

\* the read-only operations on an archive file of any content
InitStore ==
  /\ img \in ForeignStores \cup TruncatedStores \cup NamedStores
  /\ origin = NoOrigin
  /\ temp_dir = "none"
  /\ work_dir = NoDir
  /\ out_dir = NoDir
  /\ backups = NoFiles
  /\ now = 0
  /\ last = NoLast
  /\ nops = 0
NextStore == Detect \/ Extract \/ List
SpecStore == InitStore /\ [][NextStore]_vars

\* get_entry_count on a directory of any content
InitCount ==
  /\ img \in DirectoryStores
  /\ origin = NoOrigin
  /\ temp_dir = "none"
  /\ work_dir = NoDir
  /\ out_dir = NoDir
  /\ backups = NoFiles
  /\ now = 0
  /\ last = NoLast
  /\ nops = 0
NextCount == Count
SpecCount == InitCount /\ [][NextCount]_vars

\* create_img and extract_img called directly
NextBuild == Create(InputDirs) \/ Extract \/ Info
SpecBuild == Init /\ [][NextBuild]_vars

\* create_img on directories that fill a sector, and get_entry_count on what
\* it wrote
NextSector == Create(SectorDirs) \/ Count
SpecSector == Init /\ [][NextSector]_vars

\* the command line, run on an archive file that is missing or tool-written
InitMain ==
  /\ img \in MainStores
  /\ origin = NoOrigin
  /\ temp_dir = "none"
  /\ work_dir = NoDir
  /\ out_dir = NoDir
  /\ backups = NoFiles
  /\ now = 0
  /\ last = NoLast
  /\ nops = 0
NextMain == Main
SpecMain == InitMain /\ [][NextMain]_vars

\* one IMGTool instance used for a sequence of operations on one archive
Next == Enter \/ Exit \/ Create(StoreDirs) \/ Add \/ Remove \/ Rename \/ Rebuild
Spec == Init /\ [][Next]_vars

(***************************************************************************)
(* The claims.  Their formulas read the archive's bytes themselves.        *)
(***************************************************************************)
CeilDiv(a, b) == IF a % b = 0 THEN a \div b ELSE a \div b + 1

\* the little-endian uint32 at offset off
LE32(d, off) ==
  ByteAt(d, off) + 256 * ByteAt(d, off + 1) + 65536 * ByteAt(d, off + 2)
  + 16777216 * ByteAt(d, off + 3)

StartsWithVER2(d) ==
  d.size >= 4 /\ ByteAt(d, 0) = 86 /\ ByteAt(d, 1) = 69 /\ ByteAt(d, 2) = 82 /\ ByteAt(d, 3) = 50

\* img is a store written by create_img(origin.fmt, origin.files)
Built == img.exists /\ origin.fmt \in {"VER1", "VER2"}
Members == DOMAIN origin.files
MemberCount == Cardinality(Members)
\* a member's 0-based position in name-sorted order
Index(m) == Cardinality({x \in Members : LexLess(x, m)})
BuiltHeader == IF origin.fmt = "VER2" THEN 8 ELSE 0
\* the fields of directory record i of img
StartSector(i) == LE32(img.data, BuiltHeader + 32 * i)
ByteSize(i) == LE32(img.data, BuiltHeader + 32 * i + 4)
NameBytes(i) == ToSeq(ReadAt(img.data, BuiltHeader + 32 * i + 8, 24))
FieldOf(name) == [i \in 1..24 |-> IF i <= Len(name) THEN name[i] ELSE 0]

RECURSIVE SumSectors(_)
SumSectors(S) ==
  IF S = {} THEN 0
  ELSE LET m == CHOOSE x \in S : TRUE
       IN  CeilDiv(origin.files[m].size, 2048) + SumSectors(S \ {m})

\* the live members of a store: the names of the records, among the entry count
\* of its layout, with a non-empty name and a nonzero byte_size
LiveNames(store) ==
  LET fmt == detect_img_format(store)
      n == IF fmt = "INVALID" THEN 0 ELSE get_entry_count(store.data, fmt)
      ds == IF fmt = "VER2" THEN 8 ELSE 0
      name(i) == ExtractName(ReadAt(store.data, ds + 32 * i + 8, 24))
  IN  {name(i) : i \in {j \in 0..(n - 1) : LE32(store.data, ds + 32 * j + 4) > 0
                                            /\ name(j) # <<>>}}

\* C1: create_img(L, M) then extract_img, for names of at most 24 bytes and
\* sizes >= 0: extraction succeeds and writes exactly M's names with M's bytes.
C1_RoundTrip ==
  (last.op = "extract" /\ Built /\ \A m \in Members : Len(m) <= 24)
    => (last.ret = "true" /\ out_dir.files = origin.files)

\* C2: detect_img_format gives VER2 for every store starting with "VER2",
\* INVALID for every shorter-than-32 store without the magic and every all-zero
\* store, and otherwise VER1 exactly when the first two uint32 are nonzero and
\* the second is below the store size.
C2_Detection ==
  last.op = "detect" =>
    LET d == last.pre.data
    IN  /\ StartsWithVER2(d) => last.ret = "VER2"
        /\ (d.size < 32 /\ ~StartsWithVER2(d)) => last.ret = "INVALID"
        /\ d.nz = {} => last.ret = "INVALID"
        /\ (d.size >= 32 /\ ~StartsWithVER2(d)) =>
             /\ last.ret \in {"VER1", "INVALID"}
             /\ last.ret = "VER1" <=>
                  (LE32(d, 0) # 0 /\ LE32(d, 4) # 0 /\ LE32(d, 4) < d.size)

\* a VER1 verdict at the boundary: the second field is the store size minus one
C2_Witness ==
  /\ last.op = "detect"
  /\ last.ret = "VER1"
  /\ LE32(last.pre.data, 4) = last.pre.data.size - 1

\* C3: in a store written by create_img, the first record's start_sector is
\* ceil((header + 32 n) / 2048) and each next record starts
\* ceil(size / 2048) sectors after the one before it, in name-sorted order;
\* VER2 of a.dat (10 bytes) and b.dat (5000 bytes) gives sectors 1 and 2.
C3_SectorAssignment ==
  Built =>
    /\ StartSector(0) = CeilDiv(BuiltHeader + 32 * MemberCount, 2048)
    /\ \A m \in Members :
         Index(m) + 1 < MemberCount =>
           StartSector(Index(m) + 1)
             = StartSector(Index(m)) + CeilDiv(origin.files[m].size, 2048)
    /\ (origin.fmt = "VER2" /\ origin.files = (a_dat :> data10) @@ (b_dat :> data5000))
         => (StartSector(Index(a_dat)) = 1 /\ StartSector(Index(b_dat)) = 2)

C3_Witness ==
  /\ Built
  /\ origin.fmt = "VER2"
  /\ origin.files = (a_dat :> data10) @@ (b_dat :> data5000)
  /\ StartSector(0) = 1
  /\ StartSector(1) = 2
  /\ NameBytes(1) = FieldOf(b_dat)

\* a record of a store is live: non-empty name and nonzero byte_size
LiveRecord(i) == ByteSize(i) > 0 /\ ExtractName(ReadAt(img.data, BuiltHeader + 32 * i + 8, 24)) # <<>>

\* C4: in a store written by create_img, every live record's payload starts
\* inside the store and ends at or before a sector boundary that is inside
\* the store.
C4_SectorAlignment ==
  Built =>
    \A i \in 0..(MemberCount - 1) :
      LiveRecord(i) =>
        LET end == StartSector(i) * 2048 + ByteSize(i)
            boundary == CeilDiv(end, 2048) * 2048
        IN  /\ StartSector(i) * 2048 <= img.data.size
            /\ end <= boundary
            /\ boundary <= img.data.size

\* the last record is live, ends inside a sector, and the store ends at the
\* boundary after it
C4_Witness ==
  /\ Built
  /\ LiveRecord(MemberCount - 1)
  /\ ByteSize(MemberCount - 1) % 2048 # 0
  /\ CeilDiv(StartSector(MemberCount - 1) * 2048 + ByteSize(MemberCount - 1), 2048) * 2048
       = img.data.size

\* C5: create_img writes each member's bytes at start_sector * 2048, zeros up
\* to the next sector boundary, and for every non-empty member list the store
\* length is (data_start_sector + sum of ceil(size / 2048)) * 2048.
C5_PaddingAndSize ==
  Built =>
    /\ \A m \in Members :
         LET at == StartSector(Index(m)) * 2048
             size == origin.files[m].size
         IN  /\ ReadAt(img.data, at, size) = origin.files[m]
             /\ ReadAt(img.data, at + size, CeilDiv(size, 2048) * 2048 - size).nz = {}
    /\ img.data.size
         = (CeilDiv(BuiltHeader + 32 * MemberCount, 2048) + SumSectors(Members)) * 2048

C7_RebuildIdempotent ==
  (last.op = "rebuild" /\ last.pre.exists)
    => (last.ret = "true" /\ img = last.pre /\ last.saved_bytes = 0)

\* C8: after a successful add, remove, rename or rebuild the store is detected
\* as the layout it was detected as before.
C8_LayoutPreserved ==
  (last.op \in {"add", "remove", "rename", "rebuild"} /\ last.ret = "true")
    => (detect_img_format(img) = detect_img_format(last.pre)
        /\ detect_img_format(img) \in {"VER1", "VER2"})

\* C9: rename_in_img fails and leaves the store untouched (never opened for
\* writing) when old is no live member, new is a live member, or new is
\* longer than 24 bytes.
C9_RenamePreconditions ==
  last.op = "rename" =>
    LET old_name == last.args[1]
        new_name == last.args[2]
        live == LiveNames(last.pre)
    IN  (old_name \notin live \/ new_name \in live \/ Len(new_name) > 24)
          => (last.ret = "false" /\ img = last.pre /\ ~last.wrote)

\* C10: remove_multiple_from_img fails and leaves the store untouched when
\* no pattern matches a live member and when the patterns match every live
\* member.
C10_RemoveFailure ==
  last.op = "remove" =>
    LET live == LiveNames(last.pre)
        matched == {n \in live : \E k \in 1..Len(last.args) : fnmatch(n, last.args[k])}
    IN  (matched = {} \/ matched = live)
          => (last.ret = "false" /\ img = last.pre)
\* the live members of a store with their payloads: for each live record its
\* byte_size bytes at start_sector * 2048 (of two records with one name, the
\* later)
LiveFiles(store) ==
  LET fmt == detect_img_format(store)
      n == IF fmt = "INVALID" THEN 0 ELSE get_entry_count(store.data, fmt)
      ds == IF fmt = "VER2" THEN 8 ELSE 0
      name(i) == ExtractName(ReadAt(store.data, ds + 32 * i + 8, 24))
      live == {j \in 0..(n - 1) : LE32(store.data, ds + 32 * j + 4) > 0 /\ name(j) # <<>>}
      record(nm) == CHOOSE i \in live : name(i) = nm /\ \A j \in live : name(j) = nm => j <= i
  IN  [nm \in {name(i) : i \in live} |->
         ReadAt(store.data, LE32(store.data, ds + 32 * record(nm)) * 2048,
                LE32(store.data, ds + 32 * record(nm) + 4))]

\* the basenames of the supplied paths that exist, and the bytes supplied
\* under a basename (of two paths with one basename, the later)
Supplied(files_to_add) ==
  {files_to_add[k].name : k \in {j \in 1..Len(files_to_add) : files_to_add[j].exists}}
SuppliedData(files_to_add, nm) ==
  LET ks == {j \in 1..Len(files_to_add) : files_to_add[j].exists /\ files_to_add[j].name = nm}
  IN  files_to_add[CHOOSE k \in ks : \A j \in ks : j <= k].data

\* C11: after a successful add_multiple_to_img the live members are the
\* previous live members together with the supplied files that exist, by
\* basename, a supplied file replacing the payload of a member of its name and
\* every other member keeping its payload; on a store of a known layout the
\* operation fails exactly when none of the supplied paths exists.
C11_AddSemantics ==
  (last.op = "add" /\ detect_img_format(last.pre) # "INVALID") =>
    LET prev == LiveFiles(last.pre)
        cur == LiveFiles(img)
        sup == Supplied(last.args)
    IN  /\ last.ret = "true" =>
              /\ DOMAIN cur = DOMAIN prev \cup sup
              /\ \A nm \in DOMAIN cur :
                    cur[nm] = IF nm \in sup THEN SuppliedData(last.args, nm) ELSE prev[nm]
        /\ last.ret # "true" <=> sup = {}

\* C12: after a successful remove_multiple_from_img the live members are the
\* previous live members that match none of the patterns, payloads unchanged,
\* and the removed count is the number of members that disappeared; when the
\* patterns match some but not all live members the operation succeeds.
C12_RemoveSemantics ==
  last.op = "remove" =>
    LET prev == LiveFiles(last.pre)
        cur == LiveFiles(img)
        matched == {n \in DOMAIN prev : \E k \in 1..Len(last.args) : fnmatch(n, last.args[k])}
    IN  /\ last.ret = "true" =>
              /\ DOMAIN cur = DOMAIN prev \ matched
              /\ \A n \in DOMAIN cur : cur[n] = prev[n]
              /\ last.count = Cardinality(DOMAIN prev \ DOMAIN cur)
        /\ (matched # {} /\ matched # DOMAIN prev) => last.ret = "true"

\* C13: after a successful rename_in_img(old, new) the live members are the
\* previous ones with old replaced by new: new has the payload old had, the
\* number of members is unchanged and every other member keeps its name and
\* payload.
C13_RenameSemantics ==
  (last.op = "rename" /\ last.ret = "true") =>
    LET old_name == last.args[1]
        new_name == last.args[2]
        prev == LiveFiles(last.pre)
        cur == LiveFiles(img)
    IN  /\ old_name \in DOMAIN prev
        /\ DOMAIN cur = (DOMAIN prev \ {old_name}) \cup {new_name}
        /\ cur[new_name] = prev[old_name]
        /\ Cardinality(DOMAIN cur) = Cardinality(DOMAIN prev)
        /\ \A n \in DOMAIN prev \ {old_name} : cur[n] = prev[n]

\* C14: rebuild_img on a store detected as VER1 or VER2 leaves a backup holding
\* the store's bytes as they were before the rebuild (also when the rebuild
\* fails), and no later step removes or changes a backup that exists.
C14_RebuildBackup ==
  /\ [](  (last.op = "rebuild" /\ detect_img_format(last.pre) \in {"VER1", "VER2"})
        => \E t \in DOMAIN backups : backups[t] = last.pre.data)
  /\ [][\A t \in DOMAIN backups : t \in DOMAIN backups' /\ backups'[t] = backups[t]]_vars

CompoundOps == {"add", "remove", "rename", "rebuild"}

\* C15: the scratch directory of a compound operation is created when the
\* operation starts and removed when it ends, whatever the outcome: no scratch
\* directory exists when a compound operation starts, and none is left once
\* the tool's scope has been exited.
C15_ScratchLifetime ==
  /\ [][(nops' = nops + 1 /\ last'.op \in CompoundOps) => ~work_dir.exists]_vars
  /\ [](temp_dir = "removed" => ~work_dir.exists)

\* C16: a compound operation calls create_img only after detection gave VER1
\* or VER2, extraction returned success and its transform succeeded (a
\* supplied file exists; a pattern matches a scratch file; old is and new is
\* not a scratch file); when one of these steps fails the operation fails,
\* create_img is not called and the store keeps its bytes.
C16_StateMachine ==
  last.op \in CompoundOps =>
    LET detected == detect_img_format(last.pre)
        x == extract_img(last.pre, [exists |-> TRUE, files |-> last.scratch])
        transformed ==
          CASE last.op = "add" -> Supplied(last.args) # {}
            [] last.op = "remove" ->
                 \E n \in DOMAIN x.dir.files, k \in 1..Len(last.args) : fnmatch(n, last.args[k])
            [] last.op = "rename" ->
                 last.args[1] \in DOMAIN x.dir.files /\ last.args[2] \notin DOMAIN x.dir.files
            [] OTHER -> TRUE
    IN  /\ last.built <=> last.stage = "build"
        /\ last.built => (detected \in {"VER1", "VER2"} /\ x.ret = "true" /\ transformed)
        /\ ~last.built => (last.ret # "true" /\ img = last.pre /\ ~last.wrote)

\* an add whose supplied paths are all missing ended after the transform step,
\* on a store of a known layout, without a build
C16_Witness ==
  /\ last.op = "add"
  /\ last.stage = "transform"
  /\ detect_img_format(last.pre) \in {"VER1", "VER2"}
  /\ ~last.built
  /\ img = last.pre

\* record k of a VER1 directory: whether the store holds its two fields, and
\* what they say
RecordReadable(d, k) == 32 * k + 8 <= d.size
RecordTerminator(d, k) == LE32(d, 32 * k) = 0 /\ LE32(d, 32 * k + 4) = 0
RecordValid(d, k) == LE32(d, 32 * k) # 0 /\ LE32(d, 32 * k + 4) # 0

\* the index of the record at which the scan of the claim stops: the first one
\* that cannot be read or is a terminator
StopPoint(d) ==
  CHOOSE k \in 0..(d.size \div 32 + 1) :
    /\ ~RecordReadable(d, k) \/ RecordTerminator(d, k)
    /\ \A j \in 0..(k - 1) : RecordReadable(d, j) /\ ~RecordTerminator(d, j)

\* C17: get_entry_count with layout VER1 returns at most 10000 for every store.
C17_EntryCeiling ==
  (last.op = "count" /\ last.args = <<"VER1">>)
    => (last.ret = "returned" /\ last.count <= 10000)

\* C18: get_entry_count with layout VER1 returns the number of records with
\* both fields nonzero before the first record that has both fields zero or
\* cannot be read; a record with exactly one zero field is skipped and does
\* not end the scan.
C18_EntryScan ==
  (last.op = "count" /\ last.args = <<"VER1">> /\ last.pre.data.size < 32 * 10000)
    => LET d == last.pre.data
       IN  /\ last.ret = "returned"
           /\ last.count = Cardinality({k \in 0..(StopPoint(d) - 1) : RecordValid(d, k)})

\* C19: every file extract_img writes is, for some live record of that name,
\* exactly the record's byte_size bytes of the store from start_sector * 2048
\* on; no file of another length is written.
C19_ExactSize ==
  (last.op = "extract" /\ last.ret = "true") =>
    LET d == last.pre.data
        ds == IF last.fmt = "VER2" THEN 8 ELSE 0
        n == get_entry_count(d, last.fmt)
    IN  \A nm \in DOMAIN out_dir.files :
          \E i \in 0..(n - 1) :
            LET start == LE32(d, ds + 32 * i)
                size == LE32(d, ds + 32 * i + 4)
            IN  /\ ds + 32 * i + 8 <= d.size
                /\ ExtractName(ReadAt(d, ds + 32 * i + 8, 24)) = nm
                /\ size > 0
                /\ out_dir.files[nm].size = size
                /\ out_dir.files[nm] = ReadAt(d, start * 2048, size)

\* C20: on every store that detect_img_format classifies as VER1 or VER2,
\* extract_img returns success without raising, whatever can be read of the
\* directory and the payloads.
C20_PartialSuccess ==
  (last.op = "extract" /\ last.fmt \in {"VER1", "VER2"}) => last.ret = "true"

\* the names of the entries list_img_filtered printed
ListedNames == {last.printed[k].filename : k \in 1..Len(last.printed)}

\* C21: list_img_filtered and extract_img derive a record's name in the same
\* way (up to the first NUL, surrounding whitespace trimmed, non-ASCII bytes
\* dropped), so on every store the names listed without a filter are exactly
\* the names of the files extract_img writes.
C21_UniformNames ==
  (/\ last.op = "list"
   /\ last.args = <<(<<>>)>>
   /\ last.ret = "true"
   /\ out_dir.exists)
    => /\ ListedNames = DOMAIN out_dir.files
       /\ \A k \in 1..Len(last.printed) :
            \E i \in 0..(get_entry_count(img.data, last.fmt) - 1) :
              last.printed[k].filename
                = DecodeAscii(Strip(UpToNul(ToSeq(
                    ReadAt(img.data, HeaderSize(last.fmt) + 32 * i + 8, 24)))))

\* C22: on a store create_img wrote with layout VER1 from n >= 1 members that
\* all have a nonzero size, get_entry_count returns n, whatever the payloads
\* hold.
C22_BuiltCount ==
  (/\ last.op = "count"
   /\ last.args = <<"VER1">>
   /\ Built
   /\ origin.fmt = "VER1"
   /\ MemberCount >= 1
   /\ \A m \in Members : origin.files[m].size > 0)
    => (last.ret = "returned" /\ last.count = MemberCount)

\* byte_size of directory record i of the store info_img was given
InfoByteSize(i) == U32At(img.data, HeaderSize(last.fmt) + ENTRY_SIZE * i + 4)
RECURSIVE InfoByteSizeSum(_)
InfoByteSizeSum(n) == IF n = 0 THEN 0 ELSE InfoByteSizeSum(n - 1) + InfoByteSize(n - 1)

\* C23: on a valid store info_img reports as total payload the sum of byte_size
\* over the entry_count directory records, as overhead the length of the whole
\* store minus that total, and as efficiency floor(100 * total / store length).
C23_InfoFigures ==
  (last.op = "info" /\ last.ret = "true")
    => LET total == InfoByteSizeSum(last.count)
       IN  /\ last.printed.total_data_size = total
           /\ last.printed.overhead = img.data.size - total
           /\ last.printed.has_efficiency
           /\ last.printed.efficiency = (100 * total) \div img.data.size

\* C24: the member set a compound operation builds its store from holds only
\* the live members of the store it was given, with their payloads, and what
\* its own transform puts there (the supplied files of an add, the new name of
\* a rename); nothing an earlier operation left in the scratch area is a
\* member of the store a later operation writes.
C24_FreshMembers ==
  (last.op \in CompoundOps /\ last.wrote) =>
    LET prev == LiveFiles(last.pre)
    IN  \A n \in DOMAIN origin.files :
          \/ n \in DOMAIN prev /\ origin.files[n] = prev[n]
          \/ /\ last.op = "add"
             /\ n \in Supplied(last.args)
             /\ origin.files[n] = SuppliedData(last.args, n)
          \/ /\ last.op = "rename"
             /\ n = last.args[2]
             /\ last.args[1] \in DOMAIN prev
             /\ origin.files[n] = prev[last.args[1]]

\* the operation main calls for a subcommand or its alias
Subcommands ==
  {"extract", "e", "create", "c", "add", "a", "del", "d", "rename", "r",
   "rebuild", "R", "list", "l", "info", "i"}
OperationOf(command) ==
  IF command \in {"extract", "e"} THEN "extract_img"
  ELSE IF command \in {"create", "c"} THEN "create_img"
  ELSE IF command \in {"add", "a"} THEN "add_multiple_to_img"
  ELSE IF command \in {"del", "d"} THEN "remove_multiple_from_img"
  ELSE IF command \in {"rename", "r"} THEN "rename_in_img"
  ELSE IF command \in {"rebuild", "R"} THEN "rebuild_img"
  ELSE IF command \in {"list", "l"} THEN "list_img_filtered"
  ELSE "info_img"

\* C25: for a recognised command or alias with well-formed arguments main
\* enters the IMGTool scope, calls the command's operation exactly once, and
\* returns 0 when the operation reported success and 1 when it reported
\* failure; no exception leaves main.
C25_MainDispatch ==
  (last.op = "main" /\ last.args.command \in Subcommands) =>
    /\ last.ret \in {"0", "1"}
    /\ last.scope
    /\ Len(last.calls) = 1
    /\ last.calls[1].op = OperationOf(last.args.command)
    /\ last.ret = "0" <=> last.calls[1].ret = "true"
====
